---- MODULE Spec2Model ----
(***************************************************************************)
(* Workflow orchestration and session-state core of the underwriting       *)
(* pipeline (src/underwriting_agents.py, src/policy_generator.py).         *)
(*                                                                         *)
(* Texts (analyses, tool return values) are abstracted to records          *)
(* [tag, stage, kind]: which message it is, for which stage, and which     *)
(* outcome of the capability produced it.                                  *)
(***************************************************************************)
EXTENDS Integers, Sequences, FiniteSets, TLC

(* ------------------------------ bounds --------------------------------- *)
MaxRuns == 2          \* process_underwriting invocations per behaviour
MaxAnomalies == 1     \* irregular events per behaviour: a planner step off the canonical
                      \* order, a failing capability call sequence, credentials expiring
                      \* in the middle of a run
TicksPerRun == 12     \* clock reads one run can make; run k starts at time k * TicksPerRun
MaxRequests == 1      \* s3_process requests in one behaviour of SpecCore
MaxVoiceEvents == 5   \* response events one handler receives in one behaviour of SpecVoice
MaxUploads == 2       \* uploads accepted for one session in one behaviour of SpecWeb
MaxSweepOps == 3      \* operations in one behaviour of SpecSweep
MaxIsoOps == 4        \* operations in one behaviour of SpecIso

(* ------------------------- program constants --------------------------- *)
AGENT_WORKFLOW_SEQUENCE ==
  << "data_intake", "document_verification", "medical_risk_assessment",
     "financial", "driving", "compliance", "lifestyle_behavioral",
     "summary_generation" >>

total_agents == 8
MinInsights == 7
max_retries == 3

Stages == { AGENT_WORKFLOW_SEQUENCE[i] : i \in 1..total_agents }
Specialists == Stages \ {"summary_generation"}
Sessions == {"s1"}
NoSession == "no_session"

(* ------------------------------ texts ---------------------------------- *)
Text(tag, stage, kind) == [tag |-> tag, stage |-> stage, kind |-> kind]
NoText == Text("", "-", "-")
AlreadyCompleted(st) == Text("already_completed", st, "-")
SessionNotFound(st) == Text("session_id_not_found", st, "-")
DocumentAnalysisFailed(st) == Text("document_analysis_failed", st, "-")
StageError(st) == Text("stage_error", st, "-")
Insufficient == Text("insufficient_analyses", "summary_generation", "-")
Diagnostic == Text("credential_diagnostic", "-", "-")
PlannerOutput == Text("planner_output", "-", "-")

(* --------------------------- capability -------------------------------- *)
Outcomes == {"good", "short", "empty", "cred", "rate", "notfound", "other"}
Uniform(o) == << o, o, o >>
MainScripts == { Uniform("good"), Uniform("other") }

RECURSIVE Attempt(_, _, _)
Attempt(attempt, script, calls) ==
  IF attempt >= max_retries
  THEN [kind |-> "exhausted", calls |-> calls, raised |-> FALSE]
  ELSE LET o == script[attempt + 1]
           n == calls + 1
       IN CASE o = "good"  -> [kind |-> "ok", calls |-> n, raised |-> FALSE]
            [] o \in {"short", "empty"} ->
                 IF attempt < max_retries - 1
                 THEN Attempt(attempt + 1, script, n)
                 ELSE [kind |-> IF o = "short" THEN "short" ELSE "no_response",
                       calls |-> n, raised |-> FALSE]
            [] o = "cred" -> [kind |-> "auth_error", calls |-> n, raised |-> FALSE]
            [] o = "rate" -> Attempt(attempt + 1, script, n)
            [] o = "notfound" -> [kind |-> "model_error", calls |-> n, raised |-> FALSE]
            [] OTHER ->
                 IF attempt < max_retries - 1
                 THEN Attempt(attempt + 1, script, n)
                 ELSE [kind |-> "failed", calls |-> n, raised |-> FALSE]

safe_model_call_raising(credsValid, script) ==
  IF ~credsValid
  THEN [kind |-> "creds_missing", calls |-> 0, raised |-> FALSE]
  ELSE LET r == Attempt(0, script, 0)
       IN [r EXCEPT !.raised = r.kind \in {"failed", "exhausted"}]

safe_model_call(credsValid, script) ==
  IF ~credsValid
  THEN [kind |-> "creds_missing", calls |-> 0, raised |-> FALSE]
  ELSE Attempt(0, script, 0)

(* One pass through the body of the retry loop: attempt is the 0-based     *)
(* loop index and o the outcome of agent(prompt) in this pass.  done: the  *)
(* function returns with the message kind; otherwise it sleeps and goes on *)
(* with the next loop index.                                               *)
loop_body(attempt, o) ==
  CASE o = "good" -> [done |-> TRUE, kind |-> "ok", sleep |-> 0]
    [] o \in {"short", "empty"} ->
         IF attempt < max_retries - 1
         THEN [done |-> FALSE, kind |-> "-", sleep |-> 1]
         ELSE [done |-> TRUE, kind |-> IF o = "short" THEN "short" ELSE "no_response",
               sleep |-> 0]
    [] o = "cred" -> [done |-> TRUE, kind |-> "auth_error", sleep |-> 0]
    [] o = "rate" -> [done |-> FALSE, kind |-> "-", sleep |-> 5 * (attempt + 1)]
    [] o = "notfound" -> [done |-> TRUE, kind |-> "model_error", sleep |-> 0]
    [] OTHER ->
         IF attempt < max_retries - 1
         THEN [done |-> FALSE, kind |-> "-", sleep |-> 2]
         ELSE [done |-> TRUE, kind |-> "failed", sleep |-> 0]

attempt_step_unguarded(attempt, o) ==
  IF o = "other" /\ attempt = max_retries - 1
  THEN [done |-> TRUE, kind |-> "raised", sleep |-> 0]
  ELSE loop_body(attempt, o)

attempt_step_cred_retry(attempt, o) ==
  loop_body(attempt, IF o = "cred" THEN "other" ELSE o)

attempt_step_short_fails(attempt, o) ==
  loop_body(attempt, IF o \in {"short", "empty"} THEN "other" ELSE o)

attempt_step_flat_backoff(attempt, o) ==
  IF o = "rate"
  THEN [done |-> FALSE, kind |-> "-", sleep |-> 5]
  ELSE loop_body(attempt, o)

attempt_step_other_once(attempt, o) ==
  IF o = "other"
  THEN [done |-> TRUE, kind |-> "failed", sleep |-> 0]
  ELSE loop_body(attempt, o)

attempt_step(attempt, o) == loop_body(attempt, o)

Scripts == [1..max_retries -> Outcomes]

IdleCall ==
  [ pc |-> "idle", sid |-> NoSession, st |-> "-", script |-> Uniform("good"),
    attempt |-> 0, calls |-> 0, sleeps |-> << >>, kind |-> "-" ]

NoMonitor == [state |-> "none", events |-> {}, policy_generated |-> FALSE]

NoWeb ==
  [ started |-> [s \in Sessions |-> 0],
    ended |-> [s \in Sessions |-> 0],
    monitor |-> [s \in Sessions |-> NoMonitor] ]

(* One client connection and the handler start_nova_session creates for   *)
(* it: the entry in nova_underwriting_sessions, the coroutines scheduled   *)
(* on the event loop, the handler's fields, and (selected, asked) the      *)
(* history of the user's messages.                                         *)
NoVoice ==
  [ connected |-> TRUE, created |-> FALSE, in_map |-> FALSE,
    start |-> "none", end |-> "none", is_active |-> FALSE, stream |-> "none",
    role |-> "-", display_assistant_text |-> FALSE,
    pending_upload_request |-> FALSE, policy_type_confirmed |-> FALSE,
    upload_triggered |-> FALSE, task |-> "none", upload_links |-> 0,
    events |-> 0, ev |-> "-", selected |-> FALSE, asked |-> FALSE ]

NoRequest == [entry |-> "-", payload |-> "-", outcome |-> "-", sid |-> "-"]

VARIABLES
  registry,      \* context_registry: session id -> UnderwritingContext
  s3doc,         \* durable store: session id -> agent_status.json
  now,           \* clock; every datetime.now() of a context operation reads and advances it
  creds,         \* validate_aws_credentials() would succeed
  docs,          \* session upload folder: "missing" or "pdfs" (holds extracted PDFs)
  s3up,          \* the durable store accepts reads and writes
  nova_pro,      \* the model (and so the 8 stage agents) was created at load time
  orchestrator,  \* UnderwritingOrchestrator.orchestrator is not None
  run,           \* the process_underwriting call in progress or last returned
  lastCall,      \* the last stage tool invocation and what it returned
  ghost,         \* per session lifetime: capability sequences started, hook invocations,
                 \* status writes attempted
  budget,        \* runs started and anomalies that have happened so far
  smc,           \* the safe_model_call activation followed attempt by attempt
  req,           \* the last request to an entry point of agentcore_main and its result
  web,           \* run.py: worker threads and status monitors started per session
  voice          \* the voice handler of one client and its conversation state

vars == << registry, s3doc, now, creds, docs, s3up, nova_pro, orchestrator,
           run, lastCall, ghost, budget, smc, req, web, voice >>

(* --------------------------- UnderwritingContext ----------------------- *)
NewContext(sid, t) ==
  [ session_id |-> sid,
    processing_start_time |-> t,
    agent_data |-> << >>,
    processed_agents |-> {},
    document_content |-> "" ]

Keys(agent_data) == { agent_data[i].name : i \in 1..Len(agent_data) }

Entry(agent_data, name) ==
  agent_data[CHOOSE i \in 1..Len(agent_data) : agent_data[i].name = name]

get_agent_result(ctx, name) ==
  IF name \in Keys(ctx.agent_data) THEN Entry(ctx.agent_data, name).analysis ELSE NoText

has_processed_never(ctx, name) == FALSE

has_processed(ctx, name) == name \in ctx.processed_agents

get_all_insights(ctx) == ctx.agent_data

Put_front(agent_data, e) ==
  IF e.name \in Keys(agent_data)
  THEN [ i \in 1..Len(agent_data) |->
           IF agent_data[i].name = e.name THEN e ELSE agent_data[i] ]
  ELSE << e >> \o agent_data

Put(agent_data, e) ==
  IF e.name \in Keys(agent_data)
  THEN [ i \in 1..Len(agent_data) |->
           IF agent_data[i].name = e.name THEN e ELSE agent_data[i] ]
  ELSE Append(agent_data, e)

StatusData_by_count(ctx, t) ==
  [ session_id |-> ctx.session_id,
    created_at |-> ctx.processing_start_time,
    last_updated |-> t,
    status |-> IF Cardinality(ctx.processed_agents) = total_agents
               THEN "completed" ELSE "in_progress",
    agents |-> ctx.agent_data,
    final_summary |-> get_agent_result(ctx, "summary_generation"),
    completed_agents |-> Cardinality(ctx.processed_agents),
    pending_agents |-> total_agents - Cardinality(ctx.processed_agents),
    policy_generated |-> "absent" ]

StatusData(ctx, t) ==
  [ session_id |-> ctx.session_id,
    created_at |-> ctx.processing_start_time,
    last_updated |-> t,
    status |-> IF "summary_generation" \in ctx.processed_agents
               THEN "completed" ELSE "in_progress",
    agents |-> ctx.agent_data,
    final_summary |-> get_agent_result(ctx, "summary_generation"),
    completed_agents |-> Cardinality(ctx.processed_agents),
    pending_agents |-> total_agents - Cardinality(ctx.processed_agents),
    policy_generated |-> "absent" ]

(* get_session_status(session_id)['status'] for a registered session.      *)
get_session_status(reg, sid) ==
  IF Cardinality(reg[sid].processed_agents) = total_agents
  THEN "completed" ELSE "in_progress"

(* ------------------------------- world --------------------------------- *)
(* The part of the state one handler reads and writes while it runs:       *)
(* [registry, s3doc, now, ghost], and the log of the hook.                 *)
(* log: what the post-pipeline hook did in the handler that is running      *)
(* (its outcome and the steps it performed); it is not program state.      *)
Unread(why) == [status |-> why, long |-> FALSE, keyword |-> FALSE]

NoHookLog == [status |-> "none", steps |-> {}, seen |-> Unread("-"), failed |-> "none"]

World == [registry |-> registry, s3doc |-> s3doc, now |-> now, ghost |-> ghost,
          log |-> NoHookLog]

ZeroCap == [st \in Stages |-> 0]

save_agent_status_transactional(w, sid) ==
  LET ctx == w.registry[sid]
  IN IF ctx.session_id = NoSession
     THEN w
     ELSE IF s3up
          THEN [w EXCEPT !.s3doc = (sid :> StatusData(ctx, w.now)) @@ w.s3doc,
                         !.ghost.save[sid] = @ + 1]
          ELSE [w EXCEPT !.registry[sid].processed_agents = {},
                         !.ghost.save[sid] = @ + 1]

save_agent_status(w, sid) ==
  LET ctx == w.registry[sid]
  IN IF ctx.session_id = NoSession
     THEN w
     ELSE IF s3up
          THEN [w EXCEPT !.s3doc = (sid :> StatusData(ctx, w.now)) @@ w.s3doc,
                         !.ghost.save[sid] = @ + 1]
          ELSE [w EXCEPT !.ghost.save[sid] = @ + 1]

add_agent_result_status_by_outcome(w, sid, agent_name, result) ==
  LET ctx == w.registry[sid]
      e == [name |-> agent_name, analysis |-> result,
            timestamp |-> w.now,
            status |-> IF result.kind \in {"ok", "success"} THEN "completed" ELSE "failed"]
      ctx1 == [ctx EXCEPT !.agent_data = Put(@, e),
                          !.processed_agents = @ \cup {agent_name}]
      w1 == [w EXCEPT !.registry = (sid :> ctx1) @@ w.registry]
  IN [save_agent_status(w1, sid) EXCEPT !.now = @ + 1]

add_agent_result_unsaved(w, sid, agent_name, result) ==
  LET ctx == w.registry[sid]
      e == [name |-> agent_name, analysis |-> result,
            timestamp |-> w.now, status |-> "completed"]
      ctx1 == [ctx EXCEPT !.agent_data = Put(@, e),
                          !.processed_agents = @ \cup {agent_name}]
  IN [w EXCEPT !.registry = (sid :> ctx1) @@ w.registry, !.now = @ + 1]

add_agent_result(w, sid, agent_name, result) ==
  LET ctx == w.registry[sid]
      e == [name |-> agent_name, analysis |-> result,
            timestamp |-> w.now, status |-> "completed"]
      ctx1 == [ctx EXCEPT !.agent_data = Put(@, e),
                          !.processed_agents = @ \cup {agent_name}]
      w1 == [w EXCEPT !.registry = (sid :> ctx1) @@ w.registry]
  IN [save_agent_status(w1, sid) EXCEPT !.now = @ + 1]

reset_context_keep_results(w, sid) ==
  IF sid \in DOMAIN w.registry
  THEN [w EXCEPT !.registry[sid].processing_start_time = w.now,
                 !.registry[sid].processed_agents = {},
                 !.registry[sid].document_content = "",
                 !.ghost.cap[sid] = ZeroCap,
                 !.ghost.hook[sid] = 0,
                 !.ghost.save[sid] = 0,
                 !.ghost.doc[sid] = 0,
                 !.now = @ + 1]
  ELSE [w EXCEPT !.registry = (sid :> NewContext(sid, w.now)) @@ w.registry,
                 !.ghost.cap[sid] = ZeroCap,
                 !.ghost.hook[sid] = 0,
                 !.ghost.save[sid] = 0,
                 !.ghost.doc[sid] = 0,
                 !.now = @ + 1]

reset_context_clear_registry(w, sid) ==
  [w EXCEPT !.registry = (sid :> NewContext(sid, w.now)),
            !.ghost.cap[sid] = ZeroCap,
            !.ghost.hook[sid] = 0,
            !.ghost.save[sid] = 0,
            !.ghost.doc[sid] = 0,
            !.now = @ + 1]

reset_context_for_session(w, sid) ==
  [w EXCEPT !.registry = (sid :> NewContext(sid, w.now)) @@ w.registry,
            !.ghost.cap[sid] = ZeroCap,
            !.ghost.hook[sid] = 0,
            !.ghost.save[sid] = 0,
            !.ghost.doc[sid] = 0,
            !.now = @ + 1]

get_or_create_context(w, sid) ==
  IF sid \in DOMAIN w.registry
  THEN w
  ELSE reset_context_for_session(w, sid)

(* DocumentProcessor.analyze_all_pdfs: an error value when the session     *)
(* folder is missing, else the combined content of its PDFs.               *)
analyze_all_pdfs(sid) ==
  IF docs[sid] = "missing"
  THEN [error |-> TRUE, combined_content |-> ""]
  ELSE [error |-> FALSE, combined_content |-> "DOCUMENTS"]

agent_always_available(st) == TRUE

agent_available(st) == nova_pro

(* ---------------------------- post-pipeline hook ----------------------- *)
ShortKinds == {"short", "no_response", "creds_missing", "exhausted"}
HookChoices ==
  {"success", "declined", "short_summary", "extract_fail", "render_fail", "store_fail"}

(* What the summary text allows: messages shorter than 100 characters can  *)
(* only be rejected as too short; the "Model call failed ..." message       *)
(* contains the keyword "failed".                                          *)
AllowedHook(summary) ==
  CASE summary.kind \in ShortKinds -> {"short_summary"}
    [] summary.kind = "failed"     -> {"short_summary", "declined"}
    [] OTHER                       -> HookChoices

(* What the hook finds in the summary it reads: the text has at least 100 *)
(* characters; its lower-case form holds "decline", "denied" or "failed". *)
SummaryLong(summary, h) ==
  summary.kind \notin ShortKinds /\ h # "short_summary"

SummaryHasKeyword(summary, h) ==
  summary.kind = "failed" \/ h = "declined"

HookResult(w, status, steps, seen, failed) ==
  [ w |-> [w EXCEPT !.log = [status |-> status, steps |-> steps, seen |-> seen,
                             failed |-> failed]],
    status |-> status ]

(* h is the course the hook takes as far as it depends on the summary's    *)
(* content and on the services it calls: the summary is too short, holds a *)
(* decline keyword, the extraction or the rendering fails, the upload and  *)
(* the write of the descriptor throw, or everything succeeds.  The log     *)
(* keeps the returned status, the steps entered and what was read.         *)
generate_health_insurance_policy_keyword_late(w, sid, h) ==
  IF ~s3up \/ sid \notin DOMAIN w.s3doc
  THEN HookResult(w, "error", {"read"}, Unread("unreadable"), "read")
  ELSE LET agent_status == w.s3doc[sid]
           final_summary == agent_status.final_summary
           seen == [status |-> agent_status.status,
                    long |-> SummaryLong(final_summary, h),
                    keyword |-> SummaryHasKeyword(final_summary, h)]
       IN IF agent_status.status # "completed"
          THEN HookResult(w, "skipped", {"read"}, seen, "none")
          ELSE IF final_summary = NoText \/ ~SummaryLong(final_summary, h)
          THEN HookResult(w, "error", {"read"}, seen, "summary")
          ELSE IF h = "extract_fail"
          THEN HookResult(w, "error", {"read", "extract"}, seen, "extract")
          ELSE IF SummaryHasKeyword(final_summary, h)
          THEN HookResult(w, "declined", {"read", "extract"}, seen, "none")
          ELSE HookResult(w, "error", {"read", "extract", "render"}, seen, "render")

generate_health_insurance_policy(w, sid, h) ==
  IF ~s3up \/ sid \notin DOMAIN w.s3doc
  THEN HookResult(w, "error", {"read"}, Unread("unreadable"), "read")
  ELSE LET agent_status == w.s3doc[sid]
           final_summary == agent_status.final_summary
           seen == [status |-> agent_status.status,
                    long |-> SummaryLong(final_summary, h),
                    keyword |-> SummaryHasKeyword(final_summary, h)]
       IN IF agent_status.status # "completed"
          THEN HookResult(w, "skipped", {"read"}, seen, "none")
          ELSE IF final_summary = NoText \/ ~SummaryLong(final_summary, h)
          THEN HookResult(w, "error", {"read"}, seen, "summary")
          ELSE IF SummaryHasKeyword(final_summary, h)
          THEN HookResult(w, "declined", {"read"}, seen, "none")
          ELSE IF h = "extract_fail"
          THEN HookResult(w, "error", {"read", "extract"}, seen, "extract")
          ELSE IF h = "render_fail"
          THEN HookResult(w, "error", {"read", "extract", "render"}, seen, "render")
          ELSE IF h = "store_fail"
          THEN HookResult(w, "success",
                          {"read", "extract", "render", "upload", "descriptor"}, seen,
                          "store")
          ELSE HookResult([w EXCEPT !.s3doc[sid].policy_generated = "completed"],
                          "success",
                          {"read", "extract", "render", "upload", "descriptor"}, seen,
                          "none")

policy_generation_tool(w0, sid, h) ==
  LET w1 == get_or_create_context(w0, sid)
      w == [w1 EXCEPT !.ghost.hook[sid] = @ + 1]
  IN IF ~has_processed(w.registry[sid], "summary_generation")
     THEN w
     ELSE LET r == generate_health_insurance_policy(w, sid, h)
          IN CASE r.status = "success" ->
                    add_agent_result(r.w, sid, "policy_generation",
                                     Text("policy_result", "policy_generation", "success"))
               [] r.status = "declined" ->
                    add_agent_result(r.w, sid, "policy_generation",
                                     Text("policy_result", "policy_generation", "declined"))
               [] OTHER -> r.w

no_policy_trigger(w, sid, h) == w

trigger_policy_generation(w, sid, h) == policy_generation_tool(w, sid, h)

(* ------------------------------ stage tools ---------------------------- *)
(* One invocation of a stage tool with the session id its input carries,   *)
(* the capability's behaviour for this call (script) and the content-      *)
(* dependent course of the hook (h).  Result: the world afterwards, the    *)
(* returned text and whether the capability call sequence was started.     *)
Return(w, ret, invoked) == [w |-> w, ret |-> ret, invoked |-> invoked]

already_completed_any(st) == Text("already_completed", "-", "-")

already_completed(st) == AlreadyCompleted(st)

StartCap(w, sid, st) == [w EXCEPT !.ghost.cap[sid][st] = @ + 1]

specialist_tool(w0, sid, st, script) ==
  IF sid = NoSession
  THEN Return(w0, SessionNotFound(st), FALSE)
  ELSE
  LET w1 == get_or_create_context(w0, sid)
      ctx == w1.registry[sid]
  IN IF has_processed(ctx, st)
     THEN Return(w1, already_completed(st), FALSE)
     ELSE
     LET analyse == st = "data_intake" \/ ctx.document_content = ""
         document_analysis == analyze_all_pdfs(sid)
     IN IF analyse /\ document_analysis.error
        THEN Return(w1, DocumentAnalysisFailed(st), FALSE)
        ELSE
        LET w2 == IF analyse
                  THEN [w1 EXCEPT !.registry[sid].document_content =
                                      document_analysis.combined_content,
                                  !.ghost.doc[sid] = @ + 1]
                  ELSE w1
        IN IF ~agent_available(st)
           THEN LET a == Text("analysis", st, "no_agent")
                IN Return(add_agent_result(w2, sid, st, a), a, FALSE)
           ELSE LET r == safe_model_call(creds, script)
                    w3 == StartCap(w2, sid, st)
                    a == Text("analysis", st, r.kind)
                IN IF r.raised
                   THEN Return(w3, StageError(st), TRUE)
                   ELSE Return(add_agent_result(w3, sid, st, a), a, TRUE)

insufficient_insights_below_six(ctx) == Len(get_all_insights(ctx)) < MinInsights - 1

insufficient_insights(ctx) == Len(get_all_insights(ctx)) < MinInsights

summary_generation_tool(w0, sid, script, h) ==
  LET st == "summary_generation"
  IN
  IF sid = NoSession
  THEN Return(w0, SessionNotFound(st), FALSE)
  ELSE
  LET w1 == get_or_create_context(w0, sid)
      ctx == w1.registry[sid]
  IN IF has_processed(ctx, st)
     THEN Return(w1, already_completed(st), FALSE)
     ELSE IF insufficient_insights(ctx)
     THEN Return(w1, Insufficient, FALSE)
     ELSE IF ~agent_available(st)
     THEN LET a == Text("analysis", st, "fallback_html")
              w2 == add_agent_result(w1, sid, st, a)
          IN Return(trigger_policy_generation(w2, sid, h), a, FALSE)
     ELSE LET r == safe_model_call(creds, script)
              w3 == StartCap(w1, sid, st)
              a == Text("analysis", st, r.kind)
          IN IF r.raised
             THEN Return(w3, StageError(st), TRUE)
             ELSE Return(trigger_policy_generation(
                           add_agent_result(w3, sid, st, a), sid, h), a, TRUE)

stage_tool(w, sid, st, script, h) ==
  IF st = "summary_generation"
  THEN summary_generation_tool(w, sid, script, h)
  ELSE specialist_tool(w, sid, st, script)

(* ----------------------------- orchestrator ---------------------------- *)
Idle == run.pc \in {"idle", "returned"}

IdleRun ==
  [ pc |-> "idle", sid |-> NoSession, i |-> 0, ret |-> NoText,
    planner |-> 0, manual |-> 0, raised |-> FALSE, cap |-> ZeroCap,
    t0 |-> 0, docs |-> "missing", startDone |-> FALSE, prev |-> NoText ]

NoCall ==
  [ tool |-> "-", sid |-> NoSession, was |-> FALSE, cached |-> NoText, ret |-> NoText ]

Apply(w) ==
  /\ registry' = w.registry
  /\ s3doc' = w.s3doc
  /\ now' = w.now
  /\ ghost' = w.ghost

(* process_underwriting up to the dispatch: the credential check, then the *)
(* reset of the session's context.                                         *)
preflight_reset_first(w, sid, credsValid) == reset_context_for_session(w, sid)

preflight_no_reset(w, sid, credsValid) == w

preflight(w, sid, credsValid) ==
  IF ~credsValid THEN w ELSE reset_context_for_session(w, sid)

(* manual_process_underwriting starts on the session state as it is.       *)
enter_manual_with_reset(w, sid) == reset_context_for_session(w, sid)

enter_manual(w, sid) == w

AllDone(reg, sid) ==
  /\ sid \in DOMAIN reg
  /\ Stages \subseteq reg[sid].processed_agents

StartRun(sid) ==
  /\ Idle
  /\ budget.runs < MaxRuns
  /\ LET t == (budget.runs + 1) * TicksPerRun
         w == preflight([World EXCEPT !.now = t], sid, creds)
         r0 == [IdleRun EXCEPT !.sid = sid, !.t0 = t, !.docs = docs[sid],
                               !.startDone = AllDone(registry, sid),
                               !.prev = IF sid \in DOMAIN registry
                                        THEN get_agent_result(registry[sid], "summary_generation")
                                        ELSE NoText]
     IN /\ Apply(IF creds /\ ~orchestrator THEN enter_manual(w, sid) ELSE w)
        /\ run' = IF ~creds
                  THEN [r0 EXCEPT !.pc = "returned", !.ret = Diagnostic]
                  ELSE IF ~orchestrator
                  THEN [r0 EXCEPT !.pc = "manual", !.i = 1, !.manual = 1]
                  ELSE [r0 EXCEPT !.pc = "planned", !.i = 1, !.planner = 1]
  /\ budget' = [budget EXCEPT !.runs = @ + 1]
  /\ lastCall' = NoCall
  /\ UNCHANGED << creds, docs, s3up, nova_pro, orchestrator, smc, req, web, voice >>

(* One tool invocation made by the run (by the planner or by the           *)
(* sequential loop); nxt is the run record afterwards, given the result.   *)
KindOf(script) == safe_model_call(creds, script).kind

Advance(r) == [r EXCEPT !.i = @ + 1, !.ret = NoText]
Stay(r) == [r EXCEPT !.ret = NoText]
ReturnIfSummary(r) ==
  IF r.i = total_agents THEN [r EXCEPT !.pc = "returned"] ELSE Advance(r)

Continue(r, caller) ==
  CASE caller = "planner_next"    -> Advance(r)
    [] caller = "planner_deviate" -> Stay(r)
    [] OTHER                      -> ReturnIfSummary(r)

Invoke(sidArg, st, script, h, dev, caller) ==
  /\ budget.anomalies + dev <= MaxAnomalies
  /\ script = Uniform("good") \/ budget.anomalies + dev < MaxAnomalies
  /\ h \in IF st = "summary_generation"
           THEN AllowedHook(Text("analysis", st, KindOf(script)))
           ELSE {"success"}
  /\ LET r == stage_tool(World, sidArg, st, script, h)
         was == sidArg \in DOMAIN registry /\ has_processed(registry[sidArg], st)
         fault == r.invoked /\ creds /\ script # Uniform("good")
     IN /\ Apply(r.w)
        /\ lastCall' = [ tool |-> st, sid |-> sidArg, was |-> was,
                         cached |-> IF sidArg \in DOMAIN registry
                                    THEN get_agent_result(registry[sidArg], st)
                                    ELSE NoText,
                         ret |-> r.ret ]
        /\ run' = Continue([run EXCEPT !.cap[st] = IF r.invoked THEN @ + 1 ELSE @,
                                       !.ret = r.ret], caller)
        /\ budget' = [budget EXCEPT !.anomalies = @ + dev + IF fault THEN 1 ELSE 0]
  /\ UNCHANGED << creds, docs, s3up, nova_pro, orchestrator, smc, req, web, voice >>

PlannerNext ==
  /\ run.pc = "planned"
  /\ run.i <= total_agents
  /\ \E script \in MainScripts, h \in HookChoices :
       Invoke(run.sid, AGENT_WORKFLOW_SEQUENCE[run.i], script, h, 0, "planner_next")

PlannerSkip ==
  /\ run.pc = "planned"
  /\ run.i <= total_agents
  /\ budget.anomalies < MaxAnomalies
  /\ run' = [run EXCEPT !.i = @ + 1]
  /\ budget' = [budget EXCEPT !.anomalies = @ + 1]
  /\ UNCHANGED << registry, s3doc, now, creds, docs, s3up, nova_pro, orchestrator, smc,
                  lastCall, ghost, req, web, voice >>

(* The planner deviates from the workflow order: it repeats the tool it    *)
(* called last, calls the tool after the next one, or calls the next tool  *)
(* with a text that carries no session id.                                 *)
PlannerDeviate ==
  /\ run.pc = "planned"
  /\ \E k \in {run.i - 1, run.i, run.i + 1} \cap (1..total_agents),
        script \in MainScripts, h \in HookChoices :
       Invoke(IF k = run.i THEN NoSession ELSE run.sid,
              AGENT_WORKFLOW_SEQUENCE[k], script, h, 1, "planner_deviate")

PlannerReturn ==
  /\ run.pc = "planned"
  /\ run' = [run EXCEPT !.pc = "returned", !.ret = PlannerOutput]
  /\ UNCHANGED << registry, s3doc, now, creds, docs, s3up, nova_pro, orchestrator, smc,
                  lastCall, ghost, budget, req, web, voice >>

PlannerRaise ==
  /\ run.pc = "planned"
  /\ Apply(enter_manual(World, run.sid))
  /\ run' = [run EXCEPT !.pc = "manual", !.i = 1, !.manual = @ + 1,
                        !.raised = TRUE, !.ret = NoText]
  /\ UNCHANGED << creds, docs, s3up, nova_pro, orchestrator, smc, lastCall, budget, req,
                  web, voice >>

ManualStep ==
  /\ run.pc = "manual"
  /\ run.i <= total_agents
  /\ \E script \in MainScripts, h \in HookChoices :
       Invoke(run.sid, AGENT_WORKFLOW_SEQUENCE[run.i], script, h, 0, "manual")

(* ------------------------------ environment ---------------------------- *)
CredsExpire ==
  /\ creds
  /\ Idle \/ budget.anomalies < MaxAnomalies
  /\ creds' = FALSE
  /\ budget' = IF Idle THEN budget ELSE [budget EXCEPT !.anomalies = @ + 1]
  /\ UNCHANGED << registry, s3doc, now, docs, s3up, nova_pro, orchestrator, smc,
                  run, lastCall, ghost, req, web, voice >>

CredsRefresh ==
  /\ Idle
  /\ ~creds
  /\ creds' = TRUE
  /\ UNCHANGED << registry, s3doc, now, docs, s3up, nova_pro, orchestrator, smc,
                  run, lastCall, ghost, budget, req, web, voice >>

UploadDocs(sid) ==
  /\ Idle
  /\ docs[sid] = "missing"
  /\ docs' = [docs EXCEPT ![sid] = "pdfs"]
  /\ UNCHANGED << registry, s3doc, now, creds, s3up, nova_pro, orchestrator, smc,
                  run, lastCall, ghost, budget, req, web, voice >>

S3Toggle ==
  /\ budget.runs = 0 \/ budget.anomalies < MaxAnomalies
  /\ s3up' = ~s3up
  /\ budget' = IF budget.runs = 0 THEN budget ELSE [budget EXCEPT !.anomalies = @ + 1]
  /\ UNCHANGED << registry, s3doc, now, creds, docs, nova_pro, orchestrator, smc,
                  run, lastCall, ghost, req, web, voice >>

Init ==
  /\ registry = << >>
  /\ s3doc = << >>
  /\ now = 0
  /\ creds \in BOOLEAN
  /\ nova_pro \in BOOLEAN
  /\ orchestrator \in BOOLEAN
  /\ orchestrator => nova_pro
  /\ nova_pro => creds
  /\ docs = [s \in Sessions |-> "missing"]
  /\ s3up = TRUE
  /\ run = IdleRun
  /\ lastCall = NoCall
  /\ ghost = [cap |-> [s \in Sessions |-> ZeroCap], hook |-> [s \in Sessions |-> 0],
             save |-> [s \in Sessions |-> 0], doc |-> [s \in Sessions |-> 0]]
  /\ budget = [runs |-> 0, anomalies |-> 0]
  /\ smc = IdleCall
  /\ req = NoRequest
  /\ web = NoWeb
  /\ voice = NoVoice

Next ==
  \/ \E sid \in Sessions : StartRun(sid)
  \/ PlannerNext
  \/ PlannerSkip
  \/ PlannerDeviate
  \/ PlannerReturn
  \/ PlannerRaise
  \/ ManualStep
  \/ CredsExpire
  \/ CredsRefresh
  \/ \E sid \in Sessions : UploadDocs(sid)
  \/ S3Toggle

Spec == Init /\ [][Next]_vars

(* ------------------- one stage tool call, attempt by attempt ----------- *)
(* A specialist stage tool is called on a freshly reset session and its    *)
(* safe_model_call is followed through the retry loop.                     *)
InitCall ==
  /\ registry = [s \in Sessions |-> NewContext(s, 0)]
  /\ s3doc = << >>
  /\ now = 1
  /\ creds \in BOOLEAN
  /\ nova_pro = TRUE
  /\ orchestrator = TRUE
  /\ docs = [s \in Sessions |-> "pdfs"]
  /\ s3up = TRUE
  /\ run = IdleRun
  /\ lastCall = NoCall
  /\ ghost = [cap |-> [s \in Sessions |-> ZeroCap], hook |-> [s \in Sessions |-> 0],
             save |-> [s \in Sessions |-> 0], doc |-> [s \in Sessions |-> 0]]
  /\ budget = [runs |-> 0, anomalies |-> 0]
  /\ smc = IdleCall
  /\ req = NoRequest
  /\ web = NoWeb
  /\ voice = NoVoice

(* The tool reaches safe_model_call, which validates the credentials.      *)
CallEnter(sid, st, script) ==
  /\ smc.pc = "idle"
  /\ ~has_processed(registry[sid], st)
  /\ ~analyze_all_pdfs(sid).error
  /\ agent_available(st)
  /\ smc' = IF creds
            THEN [IdleCall EXCEPT !.pc = "running", !.sid = sid, !.st = st,
                                  !.script = script]
            ELSE [IdleCall EXCEPT !.pc = "done", !.sid = sid, !.st = st,
                                  !.script = script, !.kind = "creds_missing"]
  /\ UNCHANGED << registry, s3doc, now, creds, docs, s3up, nova_pro, orchestrator,
                  run, lastCall, ghost, budget, req, web, voice >>

(* One pass of the retry loop, and the exit of the loop after the last.    *)
CallAttempt ==
  /\ smc.pc = "running"
  /\ smc.attempt < max_retries
  /\ LET r == attempt_step(smc.attempt, smc.script[smc.attempt + 1])
         c == [smc EXCEPT !.calls = @ + 1]
     IN smc' = IF r.done
               THEN [c EXCEPT !.pc = IF r.kind = "raised" THEN "raised" ELSE "done",
                              !.kind = r.kind]
               ELSE IF smc.attempt + 1 < max_retries
               THEN [c EXCEPT !.attempt = @ + 1, !.sleeps = Append(@, r.sleep)]
               ELSE [c EXCEPT !.attempt = @ + 1, !.sleeps = Append(@, r.sleep),
                              !.pc = "done", !.kind = "exhausted"]
  /\ UNCHANGED << registry, s3doc, now, creds, docs, s3up, nova_pro, orchestrator,
                  run, lastCall, ghost, budget, req, web, voice >>

(* safe_model_call has returned: the tool records the result and returns.  *)
CallRecord ==
  /\ smc.pc = "done"
  /\ LET r == specialist_tool(World, smc.sid, smc.st, smc.script)
     IN /\ Apply(r.w)
        /\ lastCall' = [ tool |-> smc.st, sid |-> smc.sid, was |-> FALSE,
                         cached |-> NoText, ret |-> r.ret ]
  /\ smc' = [smc EXCEPT !.pc = "recorded"]
  /\ UNCHANGED << creds, docs, s3up, nova_pro, orchestrator, run, budget, req, web, voice >>

NextCall ==
  \/ \E sid \in Sessions, st \in Specialists, script \in Scripts :
       CallEnter(sid, st, script)
  \/ CallAttempt
  \/ CallRecord

SpecCall == InitCall /\ [][NextCall]_vars /\ WF_vars(NextCall)

(* --------------------- agentcore_main: s3_process ---------------------- *)
(* A whole s3_process request is one step: the status document is          *)
(* initialised, the archive is downloaded and extracted, the pipeline runs *)
(* and the final status is written.  The 'message' field of the status     *)
(* document is left out.                                                   *)
PendingAgents ==
  [ i \in 1..total_agents |->
      [name |-> AGENT_WORKFLOW_SEQUENCE[i], analysis |-> NoText,
       timestamp |-> -1, status |-> "pending"] ]

InitialStatus(sid, t) ==
  [ session_id |-> sid,
    created_at |-> t,
    last_updated |-> t,
    status |-> "starting",
    agents |-> PendingAgents,
    final_summary |-> NoText,
    completed_agents |-> 0,
    pending_agents |-> total_agents,
    policy_generated |-> "absent" ]

EmptyStatus(sid, t) ==
  [ session_id |-> sid,
    created_at |-> t,
    last_updated |-> t,
    status |-> "-",
    agents |-> << >>,
    final_summary |-> NoText,
    completed_agents |-> "absent",
    pending_agents |-> "absent",
    policy_generated |-> "absent" ]

initialize_processing_status(w, sid) ==
  IF s3up
  THEN [w EXCEPT !.s3doc = (sid :> InitialStatus(sid, w.now)) @@ w.s3doc, !.now = @ + 1]
  ELSE [w EXCEPT !.now = @ + 1]

update_processing_status(w, sid, status, final_summary) ==
  IF ~s3up
  THEN [w EXCEPT !.now = @ + 1]
  ELSE LET status_data == IF sid \in DOMAIN w.s3doc
                          THEN w.s3doc[sid]
                          ELSE EmptyStatus(sid, w.now)
           updated == [status_data EXCEPT
                         !.status = status,
                         !.last_updated = w.now,
                         !.final_summary = IF final_summary # NoText
                                           THEN final_summary ELSE @]
       IN [w EXCEPT !.s3doc = (sid :> updated) @@ w.s3doc, !.now = @ + 1]

(* What the planner and the capability do during one process_underwriting: *)
(* the planner calls the first k tools of the workflow and then returns    *)
(* or raises; the capability of stage bad fails on every attempt; h is the *)
(* course of the hook.                                                     *)
BadStages == {"none", "compliance", "summary_generation"}

Plans ==
  [ k : 0..total_agents, raise : BOOLEAN, bad : BadStages, h : HookChoices ]

ScriptFor(plan, st) ==
  IF st = plan.bad THEN Uniform("other") ELSE Uniform("good")

The(S) == CHOOSE x \in S : TRUE

RECURSIVE RunStages(_, _, _, _, _, _)
RunStages(w, sid, i, j, plan, ret) ==
  IF i > j
  THEN [w |-> w, ret |-> ret]
  ELSE LET st == AGENT_WORKFLOW_SEQUENCE[i]
       IN The({ RunStages(r.w, sid, i + 1, j, plan, r.ret) :
                  r \in {stage_tool(w, sid, st, ScriptFor(plan, st), plan.h)} })

manual_process_underwriting(w, sid, plan) ==
  RunStages(enter_manual(w, sid), sid, 1, total_agents, plan, NoText)

process_underwriting(w, sid, plan) ==
  IF ~creds
  THEN [w |-> preflight(w, sid, FALSE), ret |-> Diagnostic]
  ELSE LET w1 == preflight(w, sid, TRUE)
       IN IF ~orchestrator
          THEN manual_process_underwriting(w1, sid, plan)
          ELSE The({ IF plan.raise
                     THEN manual_process_underwriting(r.w, sid, plan)
                     ELSE [w |-> r.w, ret |-> PlannerOutput] :
                     r \in {RunStages(w1, sid, 1, plan.k, plan, NoText)} })

Archives == {"ok", "download_fail", "bad_zip", "no_pdfs"}

NoOutput == Text("", "-", "-")

(* handle_s3_document_processing and the first half of _process_s3_file:   *)
(* the status document is initialised, the archive downloaded and          *)
(* extracted, the status set to processing.                                *)
process_s3_file_extract(w0, sid, archive) ==
  LET w1 == initialize_processing_status(w0, sid)
  IN CASE archive = "download_fail" ->
            [w |-> update_processing_status(w1, sid, "failed", NoText), status |-> "error"]
       [] archive \in {"bad_zip", "no_pdfs"} ->
            [w |-> w1, status |-> "error"]
       [] OTHER ->
            [w |-> update_processing_status(w1, sid, "processing", NoText),
             status |-> "running"]

(* The second half of _process_s3_file: the pipeline and the final status  *)
(* update, whose final_summary is the value process_underwriting returned. *)
process_s3_file_run(w0, sid, plan) ==
  The({ [w |-> update_processing_status(get_or_create_context(r.w, sid),
                                        sid, "completed", r.ret),
         status |-> "success", final_summary |-> r.ret] :
        r \in {process_underwriting(w0, sid, plan)} })

S3Extract(sid, archive) ==
  /\ budget.runs < MaxRequests
  /\ req.outcome # "running"
  /\ archive = "no_pdfs" => docs[sid] = "missing"
  /\ docs' = IF archive = "ok" THEN [docs EXCEPT ![sid] = "pdfs"] ELSE docs
  /\ \E r \in {process_s3_file_extract(
                   [World EXCEPT !.now = (budget.runs + 1) * 2 * TicksPerRun],
                   sid, archive)} :
        /\ Apply(r.w)
        /\ req' = [ entry |-> "s3_process", payload |-> archive, outcome |-> r.status,
                    sid |-> sid, final_summary |-> NoOutput, hook |-> NoHookLog,
                    mode |-> "none", initialised |-> s3up ]
  /\ budget' = [budget EXCEPT !.runs = @ + 1]
  /\ UNCHANGED << creds, s3up, nova_pro, orchestrator, run, lastCall, smc, web, voice >>

S3Run(plan) ==
  /\ req.outcome = "running"
  /\ plan.h \in AllowedHook(Text("analysis", "summary_generation",
                                  KindOf(ScriptFor(plan, "summary_generation"))))
  /\ \E r \in {process_s3_file_run(World, req.sid, plan)} :
        /\ Apply(r.w)
        /\ req' = [ req EXCEPT
                      !.outcome = r.status,
                      !.final_summary = r.final_summary,
                      !.hook = r.w.log,
                      !.mode = IF ~creds THEN "none"
                               ELSE IF ~orchestrator THEN "sequential"
                               ELSE IF plan.raise THEN "fallback" ELSE "planned" ]
  /\ UNCHANGED << creds, docs, s3up, nova_pro, orchestrator, run, lastCall, budget, smc,
                  web, voice >>

(* ------------------------- run.py: status loader ----------------------- *)
DefaultStatus(sid) ==
  [ session_id |-> sid, status |-> "initializing", agents |-> PendingAgents ]

StoredBodies == {"json", "corrupt"}

(* client: the module's S3 client was created; body: whether the stored    *)
(* text parses.  Only a ClientError is handled, and of those only          *)
(* NoSuchKey yields the default.                                           *)
read_agent_status_from_s3(store, sid, client, body) ==
  IF ~client
  THEN [raised |-> TRUE, cause |-> "no_client", value |-> "-"]
  ELSE IF ~s3up
  THEN [raised |-> TRUE, cause |-> "client_error", value |-> "-"]
  ELSE IF sid \notin DOMAIN store
  THEN [raised |-> FALSE, cause |-> "missing", value |-> DefaultStatus(sid)]
  ELSE IF body = "corrupt"
  THEN [raised |-> TRUE, cause |-> "corrupt", value |-> "-"]
  ELSE [raised |-> FALSE, cause |-> "stored", value |-> store[sid]]

LoadStatus(sid, client, body) ==
  /\ req.outcome # "running"
  /\ LET r == read_agent_status_from_s3(s3doc, sid, client, body)
     IN req' = [ entry |-> "load", payload |-> r.cause,
                 outcome |-> IF r.raised THEN "raised" ELSE "returned",
                 sid |-> sid, value |-> r.value ]
  /\ UNCHANGED << registry, s3doc, now, creds, docs, s3up, nova_pro, orchestrator,
                  run, lastCall, ghost, budget, smc, web, voice >>

(* ---------------------- agentcore_main: entry points ------------------- *)
(* The payload handed to an entry point: a mapping; a mapping whose        *)
(* "message" is JSON text of a mapping, JSON text of something else (a     *)
(* list, a number, null) or other text; a list; None.                      *)
Payloads == {"dict", "message_dict", "message_other", "message_text", "list", "none"}

(* process_request: a mapping is dispatched to a handler, which returns a  *)
(* result; on anything else payload.get raises, and the except block       *)
(* calls payload.get again.                                                *)
process_request(payload) ==
  IF payload = "dict"
  THEN [raised |-> FALSE, status |-> "returned"]
  ELSE [raised |-> TRUE, status |-> "-"]

(* invoke: the actual payload is the parsed message if there is one; every *)
(* exception becomes an error result.                                      *)
actual_payload(payload) ==
  CASE payload = "message_dict"  -> "dict"
    [] payload = "message_other" -> "list"
    [] payload = "message_text"  -> "dict"
    [] OTHER                     -> payload

invoke(payload) ==
  IF payload = "none"
  THEN [raised |-> FALSE, status |-> "error"]
  ELSE LET result == process_request(actual_payload(payload))
       IN IF result.raised
          THEN [raised |-> FALSE, status |-> "error"]
          ELSE result

EntryResult(entry, payload, r) ==
  [ entry |-> entry, payload |-> payload,
    outcome |-> IF r.raised THEN "raised" ELSE r.status, sid |-> "-" ]

CallInvoke(payload) ==
  /\ req.outcome # "running"
  /\ req' = EntryResult("invoke", payload, invoke(payload))
  /\ UNCHANGED << registry, s3doc, now, creds, docs, s3up, nova_pro, orchestrator,
                  run, lastCall, ghost, budget, smc, web, voice >>

CallProcessRequest(payload) ==
  /\ req.outcome # "running"
  /\ req' = EntryResult("process_request", payload, process_request(payload))
  /\ UNCHANGED << registry, s3doc, now, creds, docs, s3up, nova_pro, orchestrator,
                  run, lastCall, ghost, budget, smc, web, voice >>

NextCore ==
  \/ \E payload \in Payloads : CallInvoke(payload)
  \/ \E payload \in Payloads : CallProcessRequest(payload)
  \/ \E sid \in Sessions, client \in BOOLEAN, body \in StoredBodies :
       LoadStatus(sid, client, body)
  \/ \E sid \in Sessions, archive \in Archives : S3Extract(sid, archive)
  \/ \E plan \in Plans : S3Run(plan)
  \/ CredsExpire
  \/ CredsRefresh
  \/ S3Toggle

SpecCore == Init /\ [][NextCore]_vars

(* ----------------------- two sessions interleaved ---------------------- *)
(* Operations of two sessions in any order: creation and reset of the      *)
(* context, the next stage tool of the session's workflow, a status save,  *)
(* an upload of documents.  req names the operation and its session.       *)
IsoSessions == {"s1", "s2"}

(* The sessions start without a context, or with the first stages of the  *)
(* workflow already run for them just before.                              *)
IsoPrefixes == {0, total_agents - 1}

IsoPlan == [k |-> 0, raise |-> FALSE, bad |-> "none", h |-> "success"]

EmptyWorld ==
  [ registry |-> << >>,
    s3doc |-> << >>,
    now |-> 0,
    ghost |-> [cap |-> [s \in IsoSessions |-> ZeroCap], hook |-> [s \in IsoSessions |-> 0],
               save |-> [s \in IsoSessions |-> 0], doc |-> [s \in IsoSessions |-> 0]],
    log |-> NoHookLog ]

IsoStart(k) ==
  IF k = 0
  THEN EmptyWorld
  ELSE RunStages(EmptyWorld, "s1", 1, k, IsoPlan, NoText).w

InitIso ==
  /\ creds = TRUE
  /\ nova_pro \in BOOLEAN
  /\ orchestrator = FALSE
  /\ docs \in [IsoSessions -> {"missing", "pdfs"}]
  /\ s3up = TRUE
  /\ run = IdleRun
  /\ lastCall = NoCall
  /\ budget = [runs |-> 0, anomalies |-> 0]
  /\ smc = IdleCall
  /\ req = NoRequest
  /\ web = NoWeb
  /\ voice = NoVoice
  /\ \E k \in IsoPrefixes :
       \E w \in { IsoStart(k) } :
          /\ k > 0 => docs["s1"] = "pdfs"
          /\ registry = w.registry
          /\ s3doc = w.s3doc
          /\ now = w.now
          /\ ghost = w.ghost

NextStage(reg, sid) ==
  IF sid \in DOMAIN reg
  THEN Cardinality(reg[sid].processed_agents \cap Stages) + 1
  ELSE 1

(* Every operation is counted in budget.runs and named in req.             *)
IsoOp(op, sid) ==
  /\ budget.runs < MaxIsoOps
  /\ budget' = [budget EXCEPT !.runs = @ + 1]
  /\ req' = [entry |-> op, payload |-> "-", outcome |-> "done", sid |-> sid]
  /\ UNCHANGED << creds, s3up, nova_pro, orchestrator, run, lastCall, smc, web, voice >>

IsoCreate(sid) ==
  /\ IsoOp("create", sid)
  /\ Apply(get_or_create_context(World, sid))
  /\ UNCHANGED docs

IsoReset(sid) ==
  /\ IsoOp("reset", sid)
  /\ Apply(reset_context_for_session(World, sid))
  /\ UNCHANGED docs

IsoStage(sid, script, h) ==
  /\ IsoOp("stage", sid)
  /\ NextStage(registry, sid) <= total_agents
  /\ LET st == AGENT_WORKFLOW_SEQUENCE[NextStage(registry, sid)]
     IN /\ st = "summary_generation" =>
              h \in AllowedHook(Text("analysis", st, KindOf(script)))
        /\ st # "summary_generation" => h = "success"
        /\ \E r \in {stage_tool(World, sid, st, script, h)} : Apply(r.w)
  /\ UNCHANGED docs

IsoPersist(sid) ==
  /\ IsoOp("persist", sid)
  /\ sid \in DOMAIN registry
  /\ Apply(save_agent_status(World, sid))
  /\ UNCHANGED docs

IsoUpload(sid) ==
  /\ IsoOp("upload", sid)
  /\ docs[sid] = "missing"
  /\ docs' = [docs EXCEPT ![sid] = "pdfs"]
  /\ UNCHANGED << registry, s3doc, now, ghost, web, voice >>

NextIso ==
  \/ \E sid \in IsoSessions : IsoCreate(sid)
  \/ \E sid \in IsoSessions : IsoReset(sid)
  \/ \E sid \in IsoSessions, script \in MainScripts, h \in HookChoices :
       IsoStage(sid, script, h)
  \/ \E sid \in IsoSessions : IsoPersist(sid)
  \/ \E sid \in IsoSessions : IsoUpload(sid)

SpecIso == InitIso /\ [][NextIso]_vars

(* ------------------------- run.py: uploads and monitor ----------------- *)
(* upload_from_nova (POST): a valid archive that reaches S3 triggers       *)
(* AgentCore in a new worker thread and starts a status monitor thread.    *)
(* The web state counts, per session, the workers started and ended.       *)
trigger_agentcore_processing(w, sid) ==
  [w EXCEPT !.started[sid] = @ + 1]

upload_from_nova(w, sid, valid) ==
  IF ~valid \/ ~s3up
  THEN w
  ELSE LET w1 == trigger_agentcore_processing(w, sid)
       IN [w1 EXCEPT !.monitor[sid].state = "polling"]

ActiveWorkers(sid) == web.started[sid] - web.ended[sid]

UploadPost(sid, valid) ==
  /\ web.started[sid] < MaxUploads
  /\ web' = upload_from_nova(web, sid, valid)
  /\ web' # web
  /\ UNCHANGED << registry, s3doc, now, creds, docs, s3up, nova_pro, orchestrator,
                  run, lastCall, ghost, budget, smc, req, voice >>

(* The request of a started worker reaches handle_s3_document_processing.  *)
WorkerRequest(sid, archive) ==
  /\ budget.runs < web.started[sid]
  /\ S3Extract(sid, archive)

(* run_agentcore returns after the request it issued has returned.         *)
WorkerEnd(sid) ==
  /\ req.entry = "s3_process"
  /\ req.outcome \in {"success", "error"}
  /\ web.ended[sid] < budget.runs
  /\ web' = [web EXCEPT !.ended[sid] = @ + 1]
  /\ UNCHANGED << registry, s3doc, now, creds, docs, s3up, nova_pro, orchestrator,
                  run, lastCall, ghost, budget, smc, req, voice >>

(* One pass of the loop of monitor_s3_agent_status: a read that raises is  *)
(* logged; on status completed the monitor emits processing_complete with  *)
(* the policy flag of the document read, policy_generated if that flag is  *)
(* set, and stops; on failed it emits processing_failed and stops.         *)
monitor_poll(m, store, sid, body) ==
  LET r == read_agent_status_from_s3(store, sid, TRUE, body)
  IN IF r.raised
     THEN m
     ELSE IF r.value.status = "completed"
     THEN LET flag == r.value.policy_generated = "completed"
          IN [ state |-> "stopped",
               events |-> m.events \cup {"processing_complete"}
                            \cup (IF flag THEN {"policy_generated"} ELSE {}),
               policy_generated |-> flag ]
     ELSE IF r.value.status = "failed"
     THEN [m EXCEPT !.state = "stopped", !.events = @ \cup {"processing_failed"}]
     ELSE m

MonitorPoll(sid, body) ==
  /\ web.monitor[sid].state = "polling"
  /\ web' = [web EXCEPT !.monitor[sid] = monitor_poll(@, s3doc, sid, body)]
  /\ web' # web
  /\ UNCHANGED << registry, s3doc, now, creds, docs, s3up, nova_pro, orchestrator,
                  run, lastCall, ghost, budget, smc, req, voice >>

NextWeb ==
  \/ \E sid \in Sessions, valid \in BOOLEAN : UploadPost(sid, valid)
  \/ \E sid \in Sessions, archive \in Archives : WorkerRequest(sid, archive)
  \/ \E plan \in Plans : S3Run(plan)
  \/ \E sid \in Sessions : WorkerEnd(sid)
  \/ \E sid \in Sessions, body \in StoredBodies : MonitorPoll(sid, body)
  \/ S3Toggle

SpecWeb == Init /\ [][NextWeb]_vars

(* --------------------------- cleanup_old_sessions ---------------------- *)
(* Ages are counted in clock ticks.  old: the session folders whose        *)
(* modification time is older than max_age; fail: those of them whose      *)
(* removal raises.                                                         *)
MaxAges == {1, 3, total_agents + 1}

session_expired_at_age(age, max_age) == age >= max_age

session_expired(age, max_age) == age > max_age

Restrict(f, S) == IF S = {} THEN << >> ELSE [ x \in S |-> f[x] ]

cleanup_old_sessions(w, folders, max_age, old, fail) ==
  LET current_time == w.now
      expired == { sid \in DOMAIN w.registry :
                     session_expired(current_time - w.registry[sid].processing_start_time,
                                     max_age) }
      removed == { sid \in old \ fail : folders[sid] # "missing" }
  IN [ w |-> [w EXCEPT !.registry = Restrict(w.registry, DOMAIN w.registry \ expired),
                       !.now = @ + 1],
       folders |-> [ sid \in DOMAIN folders |->
                       IF sid \in removed THEN "missing" ELSE folders[sid] ],
       cleaned_sessions |-> expired \cup removed,
       raised |-> FALSE ]

Cleanup(max_age, old, fail) ==
  /\ budget.runs < MaxSweepOps
  /\ budget' = [budget EXCEPT !.runs = @ + 1]
  /\ fail \subseteq old
  /\ \A sid \in old : docs[sid] # "missing"
  /\ \E r \in {cleanup_old_sessions(World, docs, max_age, old, fail)} :
        /\ Apply(r.w)
        /\ docs' = r.folders
        /\ req' = [ entry |-> "cleanup", payload |-> max_age,
                    outcome |-> IF r.raised THEN "raised" ELSE "returned",
                    sid |-> "-", at |-> now, old |-> old, fail |-> fail,
                    cleaned |-> r.cleaned_sessions ]
  /\ UNCHANGED << creds, s3up, nova_pro, orchestrator, run, lastCall, smc, web, voice >>

SweepStep == budget.runs < MaxSweepOps

NextSweep ==
  \/ \E sid \in IsoSessions : SweepStep /\ IsoCreate(sid)
  \/ \E sid \in IsoSessions : SweepStep /\ IsoReset(sid)
  \/ \E sid \in IsoSessions, script \in MainScripts, h \in HookChoices :
       SweepStep /\ IsoStage(sid, script, h)
  \/ \E sid \in IsoSessions : SweepStep /\ IsoUpload(sid)
  \/ \E max_age \in MaxAges, old \in SUBSET IsoSessions, fail \in SUBSET IsoSessions :
       Cleanup(max_age, old, fail)

SpecSweep == InitIso /\ [][NextSweep]_vars

(* ------------------------------ properties ----------------------------- *)
Ctx(sid) == registry[sid]
Recorded(sid, st) == sid \in DOMAIN registry /\ st \in Keys(Ctx(sid).agent_data)
SameLifetime(sid) ==
  /\ sid \in DOMAIN registry
  /\ sid \in DOMAIN registry'
  /\ registry'[sid].processing_start_time = registry[sid].processing_start_time
Executed == run.planner + run.manual >= 1

(* C1: once a stage has a recorded StageResult, no step within the same    *)
(* session lifetime (no reset in between) changes that StageResult or      *)
(* starts the stage's capability call sequence again, so the sequence is   *)
(* started at most once per stage per session lifetime.                    *)
C1_StageIdempotent ==
  /\ [][ \A sid \in Sessions, st \in Stages :
           (Recorded(sid, st) /\ SameLifetime(sid)) =>
             /\ st \in Keys(registry'[sid].agent_data)
             /\ Entry(registry'[sid].agent_data, st) = Entry(registry[sid].agent_data, st)
             /\ ghost'.cap[sid][st] = ghost.cap[sid][st] ]_vars
  /\ [](\A sid \in Sessions, st \in Stages : ghost.cap[sid][st] <= 1)

C1_Witness ==
  /\ lastCall.was
  /\ lastCall.tool \in Specialists
  /\ Recorded(lastCall.sid, lastCall.tool)

(* C2 as stated: a stage tool invoked on an already completed stage        *)
(* returns the cached analysis of that stage.                              *)
C2_ReturnsCachedAnalysis ==
  lastCall.was => lastCall.ret = lastCall.cached

(* C2 as amended: a stage tool invoked on an already completed stage       *)
(* returns that stage's fixed "already completed" message, which is not    *)
(* the cached analysis.                                                    *)
C2_ReturnsSentinel ==
  lastCall.was =>
    /\ lastCall.ret = AlreadyCompleted(lastCall.tool)
    /\ lastCall.ret # lastCall.cached

C2_Witness ==
  /\ lastCall.was
  /\ lastCall.tool = "summary_generation"
  /\ lastCall.cached.tag = "analysis"

(* C3 as stated: a run through the sequential runner on a session whose 8  *)
(* stages were already completed returns the first run's summary analysis  *)
(* and starts no capability call sequence.                                 *)
C3_SecondRunServedFromCache ==
  (run.pc = "returned" /\ run.startDone /\ run.manual = 1) =>
    /\ run.ret = run.prev
    /\ \A st \in Stages : run.cap[st] = 0

(* C3 as amended: with valid credentials a second run on a completed       *)
(* session resets the session first, so it keeps no StageResult of the     *)
(* first run and every stage executes afresh; with the model available a   *)
(* run that returns through the sequential runner has started the          *)
(* capability call sequence exactly once for each of the 8 stages and      *)
(* returns the newly recorded summary analysis.                            *)
C3_SecondRunExecutesAfresh ==
  (run.startDone /\ Executed) =>
    /\ \A i \in 1..Len(Ctx(run.sid).agent_data) :
         Ctx(run.sid).agent_data[i].timestamp > run.t0
    /\ (run.pc = "returned" /\ run.manual = 1 /\ nova_pro) =>
         /\ \A st \in Stages : run.cap[st] = 1
         /\ Recorded(run.sid, "summary_generation")
         /\ Entry(Ctx(run.sid).agent_data, "summary_generation").timestamp > run.t0
         /\ ~run.raised => run.ret = get_agent_result(Ctx(run.sid), "summary_generation")

C3_Witness ==
  /\ run.pc = "returned"
  /\ run.startDone
  /\ run.manual = 1
  /\ ~run.raised
  /\ nova_pro
  /\ run.ret.tag = "analysis"

(* C4: a run that returns through the sequential runner, started with     *)
(* valid credentials and an analysable document folder, has recorded a     *)
(* StageResult for all 7 specialist stages and has recorded                *)
(* summary_generation as completed, so the session's overall status is     *)
(* completed; this holds when a stage's capability raises a non-credential *)
(* error on every attempt.                                                 *)
C4_NeverHalt ==
  (run.pc = "returned" /\ run.manual = 1 /\ run.docs = "pdfs") =>
    /\ \A st \in Specialists : Recorded(run.sid, st)
    /\ Recorded(run.sid, "summary_generation")
    /\ Entry(Ctx(run.sid).agent_data, "summary_generation").status = "completed"
    /\ StatusData(Ctx(run.sid), now).status = "completed"

C4_Witness ==
  /\ run.pc = "returned"
  /\ run.manual = 1
  /\ run.planner = 0
  /\ run.docs = "pdfs"
  /\ \E st \in Specialists :
       /\ Recorded(run.sid, st)
       /\ get_agent_result(Ctx(run.sid), st).kind = "failed"
  /\ StatusData(Ctx(run.sid), now).status = "completed"

(* C5: within a session lifetime the post-pipeline hook has been triggered *)
(* exactly once if summary_generation is recorded as completed and not at  *)
(* all otherwise, in planned mode and in sequential fallback mode alike.   *)
C5_HookExactlyOnce ==
  \A sid \in DOMAIN registry :
    ghost.hook[sid] = IF has_processed(Ctx(sid), "summary_generation") THEN 1 ELSE 0

C5_Witness ==
  /\ run.pc = "returned"
  /\ run.raised
  /\ lastCall.tool = "summary_generation"
  /\ ~lastCall.was
  /\ ghost.hook[run.sid] = 1

(* C6: one process_underwriting call invokes the planner at most once and  *)
(* the sequential runner at most once; after the planner raised, the       *)
(* sequential runner has been invoked exactly once, on the session state   *)
(* created by the run's single reset, and no stage's capability call       *)
(* sequence is started twice in the run.                                   *)
C6_FallbackOnceNoReset ==
  /\ run.planner <= 1
  /\ run.manual <= 1
  /\ run.raised => (run.planner = 1 /\ run.manual = 1)
  /\ Executed =>
       /\ run.sid \in DOMAIN registry
       /\ Ctx(run.sid).processing_start_time = run.t0
       /\ \A st \in Stages : run.cap[st] <= 1 /\ run.cap[st] = ghost.cap[run.sid][st]

C6_Witness ==
  /\ run.raised
  /\ run.pc = "manual"
  /\ lastCall.was
  /\ run.cap[lastCall.tool] = 1

(* C7: whenever a run returns through the sequential runner and            *)
(* summary_generation has a recorded StageResult, the returned value is    *)
(* that StageResult's analysis.                                            *)
C7_FallbackReturnsSummary ==
  (run.pc = "returned" /\ run.manual = 1 /\ Recorded(run.sid, "summary_generation")) =>
    run.ret = get_agent_result(Ctx(run.sid), "summary_generation")

(* C8: a process_underwriting call whose credential validation fails       *)
(* returns the diagnostic and changes neither the session registry nor the *)
(* durable store nor any capability or hook count.                         *)
C8_CredentialFailureFrame ==
  [][ (budget'.runs = budget.runs + 1 /\ ~creds) =>
        /\ run'.pc = "returned"
        /\ run'.ret = Diagnostic
        /\ registry' = registry
        /\ s3doc' = s3doc
        /\ ghost' = ghost ]_vars

C8_Witness ==
  /\ run.pc = "returned"
  /\ run.ret = Diagnostic
  /\ run.startDone
  /\ AllDone(registry, run.sid)

C10_ResetSemantics ==
  /\ [][ \A sid \in Sessions :
           (sid \in DOMAIN registry' /\ ~SameLifetime(sid)) =>
             /\ registry'[sid].agent_data = << >>
             /\ registry'[sid].processed_agents = {}
             /\ registry'[sid].document_content = "" ]_vars
  /\ [](\A sid \in DOMAIN registry :
          \A i \in 1..Len(Ctx(sid).agent_data) :
            Ctx(sid).agent_data[i].timestamp > Ctx(sid).processing_start_time)
  /\ []((run.manual = 1 /\ run.planner = 0) => ~lastCall.was)

C10_Witness ==
  /\ run.startDone
  /\ run.prev.tag = "analysis"
  /\ run.pc = "returned"
  /\ run.planner = 0
  /\ run.manual = 1
  /\ lastCall.tool = "summary_generation"
  /\ ~lastCall.was
  /\ AllDone(registry, run.sid)

(* C11: a run that returns through the sequential runner with an           *)
(* analysable document folder, while every write of the session's status   *)
(* document has failed (the durable store holds no document for the        *)
(* session), has all 8 StageResults recorded in memory with status         *)
(* completed, reports the in-memory status completed, and returned a       *)
(* stage tool's text to the caller.                                        *)
C11_PersistenceResilience ==
  (run.pc = "returned" /\ run.manual = 1 /\ run.docs = "pdfs"
     /\ run.sid \notin DOMAIN s3doc) =>
    /\ \A st \in Stages :
         /\ Recorded(run.sid, st)
         /\ Entry(Ctx(run.sid).agent_data, st).status = "completed"
    /\ Ctx(run.sid).processed_agents = Stages
    /\ StatusData(Ctx(run.sid), now).status = "completed"
    /\ get_session_status(registry, run.sid) = "completed"
    /\ run.ret \in { get_agent_result(Ctx(run.sid), "summary_generation"),
                     AlreadyCompleted("summary_generation") }

C11_Witness ==
  /\ run.pc = "returned"
  /\ run.manual = 1
  /\ run.docs = "pdfs"
  /\ ~s3up
  /\ run.sid \notin DOMAIN s3doc
  /\ nova_pro
  /\ get_session_status(registry, run.sid) = "completed"
  /\ run.ret = get_agent_result(Ctx(run.sid), "summary_generation")

(* C12: for every sequence of capability outcomes one safe_model_call      *)
(* never lets an exception escape, invokes the capability at most 3 times  *)
(* and, once running, returns; followed attempt by attempt it returns the  *)
(* same message after the same number of invocations as the function the   *)
(* stage tools apply.                                                      *)
C12_CallTerminates ==
  /\ [](/\ smc.pc # "raised"
        /\ smc.calls <= max_retries
        /\ smc.pc = "running" => smc.attempt < max_retries)
  /\ [](smc.pc \in {"done", "recorded"} =>
          /\ smc.kind = safe_model_call(creds, smc.script).kind
          /\ smc.calls = safe_model_call(creds, smc.script).calls
          /\ ~safe_model_call(creds, smc.script).raised)
  /\ (smc.pc = "running" ~> smc.pc = "done")

C12_Witness ==
  /\ smc.pc = "done"
  /\ smc.script = << "short", "rate", "other" >>
  /\ smc.calls = 3
  /\ smc.kind = "failed"

(* C13: when attempt k of the capability raises a credential error, the    *)
(* capability has been invoked exactly k times in total, safe_model_call   *)
(* returns the authentication error message, and the stage tool records    *)
(* the stage as completed with that message as its analysis.               *)
C13_CredentialErrorStops ==
  /\ \A k \in 1..max_retries :
       (smc.calls >= k /\ smc.script[k] = "cred") =>
         /\ smc.calls = k
         /\ smc.pc \in {"done", "recorded"}
         /\ smc.kind = "auth_error"
  /\ (smc.pc = "recorded" /\ smc.kind = "auth_error") =>
       /\ Recorded(smc.sid, smc.st)
       /\ has_processed(Ctx(smc.sid), smc.st)
       /\ Entry(Ctx(smc.sid).agent_data, smc.st).status = "completed"
       /\ get_agent_result(Ctx(smc.sid), smc.st) = Text("analysis", smc.st, "auth_error")
       /\ lastCall.ret = Text("analysis", smc.st, "auth_error")

C13_Witness ==
  /\ smc.pc = "recorded"
  /\ smc.script = << "other", "cred", "good" >>
  /\ smc.calls = 2
  /\ get_agent_result(Ctx(smc.sid), smc.st).kind = "auth_error"

(* C14: an attempt whose result is empty or at most 10 characters long is  *)
(* followed, when it is attempt 1 or 2, by a sleep of 1 second and a       *)
(* further attempt; when it is attempt 3, safe_model_call returns the      *)
(* short result itself (the no-response message for an empty one) and the  *)
(* stage tool records the stage as completed with it.                      *)
C14_SoftFailureRetried ==
  /\ \A k \in 1..(max_retries - 1) :
       (smc.calls >= k /\ smc.script[k] \in {"short", "empty"}) =>
         /\ Len(smc.sleeps) >= k
         /\ smc.sleeps[k] = 1
         /\ smc.attempt >= k
         /\ smc.pc \in {"done", "recorded"} => smc.calls >= k + 1
  /\ (smc.calls = max_retries /\ smc.script[max_retries] \in {"short", "empty"}) =>
       /\ smc.pc \in {"done", "recorded"}
       /\ smc.kind = IF smc.script[max_retries] = "short" THEN "short" ELSE "no_response"
       /\ Len(smc.sleeps) = max_retries - 1
       /\ smc.pc = "recorded" =>
            /\ has_processed(Ctx(smc.sid), smc.st)
            /\ Entry(Ctx(smc.sid).agent_data, smc.st).status = "completed"
            /\ get_agent_result(Ctx(smc.sid), smc.st) = Text("analysis", smc.st, smc.kind)
            /\ lastCall.ret = Text("analysis", smc.st, smc.kind)

C14_Witness ==
  /\ smc.pc = "recorded"
  /\ smc.script = << "empty", "short", "short" >>
  /\ smc.sleeps = << 1, 1 >>
  /\ get_agent_result(Ctx(smc.sid), smc.st).kind = "short"

(* C15: a rate-limit error on attempt k (counted from 1) is followed by a  *)
(* sleep of 5*k seconds and uses up that attempt, the next being attempt   *)
(* k+1; when all 3 attempts are rate-limited the capability is invoked     *)
(* exactly 3 times, the sleeps are 5, 10 and 15 seconds, and the           *)
(* retries-exhausted failure message is returned.                          *)
C15_RateLimitBackoff ==
  /\ \A k \in 1..max_retries :
       (smc.calls >= k /\ smc.script[k] = "rate") =>
         /\ Len(smc.sleeps) >= k
         /\ smc.sleeps[k] = 5 * k
         /\ smc.attempt >= k
         /\ (smc.pc \in {"done", "recorded"} /\ k < max_retries) => smc.calls >= k + 1
  /\ smc.attempt <= smc.calls
  /\ (smc.script = Uniform("rate") /\ smc.pc \in {"done", "recorded"} /\ smc.calls > 0) =>
       /\ smc.calls = 3
       /\ smc.sleeps = << 5, 10, 15 >>
       /\ smc.kind = "exhausted"

C15_Witness ==
  /\ smc.pc = "done"
  /\ smc.script = Uniform("rate")
  /\ smc.sleeps = << 5, 10, 15 >>
  /\ smc.kind = "exhausted"

(* C16 as stated: every capability error that is neither a credential nor  *)
(* a rate-limit error (a not-found error included) is followed by a sleep  *)
(* of 2 seconds and a further attempt when it is attempt 1 or 2, and by    *)
(* the final failure message when it is attempt 3.                         *)
C16_EveryOtherErrorRetried ==
  \A k \in 1..max_retries :
    (smc.calls >= k /\ smc.script[k] \in {"notfound", "other"}) =>
      IF k < max_retries
      THEN /\ Len(smc.sleeps) >= k
           /\ smc.sleeps[k] = 2
           /\ smc.pc \in {"done", "recorded"} => smc.calls >= k + 1
      ELSE /\ smc.pc \in {"done", "recorded"}
           /\ smc.kind = "failed"

(* C16 as amended: an error that is not a credential, rate-limit or        *)
(* not-found error is followed by a sleep of 2 seconds and a further       *)
(* attempt when it is attempt 1 or 2, and by the final failure message     *)
(* when it is attempt 3; a not-found error on attempt k is not retried:    *)
(* exactly k invocations are made and the model-not-available message is   *)
(* returned.                                                               *)
C16_OtherErrorsRetried ==
  \A k \in 1..max_retries :
    /\ (smc.calls >= k /\ smc.script[k] = "other") =>
         IF k < max_retries
         THEN /\ Len(smc.sleeps) >= k
              /\ smc.sleeps[k] = 2
              /\ smc.pc \in {"done", "recorded"} => smc.calls >= k + 1
         ELSE /\ smc.pc \in {"done", "recorded"}
              /\ smc.kind = "failed"
    /\ (smc.calls >= k /\ smc.script[k] = "notfound") =>
         /\ smc.calls = k
         /\ smc.pc \in {"done", "recorded"}
         /\ smc.kind = "model_error"
         /\ Len(smc.sleeps) = k - 1

C16_Witness ==
  /\ smc.pc = "done"
  /\ smc.script = << "other", "notfound", "good" >>
  /\ smc.calls = 2
  /\ smc.sleeps = << 2 >>
  /\ smc.kind = "model_error"

(* C17: in every reachable state every StageResult stored in a session has *)
(* status completed, whatever its analysis says, and a name is in the      *)
(* session's processed set exactly when the session stores a StageResult   *)
(* under that name.                                                        *)
C17_StoredMeansCompleted ==
  \A sid \in DOMAIN registry :
    /\ \A i \in 1..Len(Ctx(sid).agent_data) : Ctx(sid).agent_data[i].status = "completed"
    /\ Ctx(sid).processed_agents = Keys(Ctx(sid).agent_data)
    /\ \A st \in Stages : has_processed(Ctx(sid), st) <=> Recorded(sid, st)

C17_Witness ==
  \E sid \in DOMAIN registry :
    /\ Recorded(sid, "compliance")
    /\ get_agent_result(Ctx(sid), "compliance").kind = "failed"
    /\ Entry(Ctx(sid).agent_data, "compliance").status = "completed"
    /\ ~Recorded(sid, "summary_generation")

(* C18: whenever a stage tool invoked on a stage that is not yet completed *)
(* returns an analysis (a success or a degraded one), the session then     *)
(* stores a StageResult for that stage with that analysis and status       *)
(* completed, the stage is marked processed, and a write of the session's  *)
(* full status document has been attempted in that invocation (exactly one *)
(* for a specialist stage; summary_generation's invocation goes on to the  *)
(* hook, which may record its own result and write again); while the store *)
(* accepts writes, the document holds that StageResult.                    *)
C18_ResultRecordedAndPersisted ==
  [][ \A sid \in Sessions :
        (lastCall' # lastCall /\ lastCall'.sid = sid /\ lastCall'.ret.tag = "analysis") =>
          LET st == lastCall'.tool
              ctx == registry'[sid]
          IN /\ ~lastCall'.was
             /\ st \in Keys(ctx.agent_data)
             /\ Entry(ctx.agent_data, st).status = "completed"
             /\ Entry(ctx.agent_data, st).analysis = lastCall'.ret
             /\ has_processed(ctx, st)
             /\ ghost'.save[sid] >= ghost.save[sid] + 1
             /\ st # "summary_generation" => ghost'.save[sid] = ghost.save[sid] + 1
             /\ s3up =>
                  /\ sid \in DOMAIN s3doc'
                  /\ st \in Keys(s3doc'[sid].agents)
                  /\ Entry(s3doc'[sid].agents, st) = Entry(ctx.agent_data, st)
                  /\ st # "summary_generation" =>
                       s3doc'[sid] = StatusData(ctx, Entry(ctx.agent_data, st).timestamp) ]_vars

C18_Witness ==
  /\ lastCall.tool = "document_verification"
  /\ lastCall.ret = Text("analysis", "document_verification", "failed")
  /\ lastCall.sid \in DOMAIN s3doc
  /\ s3doc[lastCall.sid].completed_agents = 2
  /\ s3doc[lastCall.sid].status = "in_progress"
  /\ ghost.save[lastCall.sid] = 2

(* C19: every status document written by save_agent_status has status      *)
(* completed if summary_generation is in the session's processed set at    *)
(* the time of the write and in_progress otherwise.                        *)
C19_StatusIffSummaryProcessed ==
  /\ [][ \A sid \in Sessions :
           (s3up /\ sid \in DOMAIN registry' /\ ghost'.save[sid] > ghost.save[sid]) =>
             /\ sid \in DOMAIN s3doc'
             /\ s3doc'[sid].status =
                  IF has_processed(registry'[sid], "summary_generation")
                  THEN "completed" ELSE "in_progress" ]_vars
  /\ [](\A sid \in DOMAIN s3doc :
          s3doc[sid].status =
            IF "summary_generation" \in Keys(s3doc[sid].agents)
            THEN "completed" ELSE "in_progress")

C19_Witness ==
  \E sid \in DOMAIN s3doc :
    /\ s3doc[sid].status = "completed"
    /\ s3doc[sid].completed_agents = 9
    /\ "policy_generation" \in Keys(s3doc[sid].agents)
    /\ ghost.save[sid] = 9

(* C20: in every reachable state a stage has a StageResult only if every   *)
(* predecessor of that stage in the canonical 8-stage order has a          *)
(* StageResult.                                                            *)
C20_PredecessorsRecorded ==
  \A sid \in DOMAIN registry :
    \A i \in 1..total_agents :
      Recorded(sid, AGENT_WORKFLOW_SEQUENCE[i]) =>
        \A j \in 1..(i - 1) : Recorded(sid, AGENT_WORKFLOW_SEQUENCE[j])


(* ------------------------------ C21 ------------------------------------ *)
(* C21: loading the durable status of a session never raises; when the     *)
(* stored document is missing or does not parse, the loader returns the    *)
(* default with all 8 stages pending and status initializing.              *)
C21_LoadNeverRaises ==
  req.entry = "load" =>
    /\ req.outcome = "returned"
    /\ req.payload \in {"missing", "corrupt"} => req.value = DefaultStatus(req.sid)

(* ------------------------------ C22 ------------------------------------ *)
HookRan == req.entry = "s3_process" /\ req.hook.status # "none"

HookRead == HookRan /\ req.hook.seen.status # "unreadable"

NoArtifactWork ==
  /\ req.hook.steps \subseteq {"read"}
  /\ req.sid \in DOMAIN s3doc => s3doc[req.sid].policy_generated = "absent"

(* C22 as stated: whenever the summary the hook reads holds a decline,     *)
(* denial or failure keyword, the hook returns declined and does no        *)
(* extraction, rendering, upload or descriptor write.                      *)
C22_KeywordMeansDeclined ==
  (HookRead /\ req.hook.seen.keyword) =>
     (req.hook.status = "declined" /\ NoArtifactWork)

(* C22: when the status read by the hook is completed and its summary has  *)
(* at least 100 characters and holds a decline, denial or failure keyword, *)
(* the hook returns declined; with such a keyword, whatever the length,    *)
(* the hook does no extraction, rendering, upload or descriptor write.     *)
C22_LongKeywordMeansDeclined ==
  (HookRead /\ req.hook.seen.keyword) =>
     /\ NoArtifactWork
     /\ req.hook.status \in {"declined", "error"}
     /\ (req.hook.seen.status = "completed" /\ req.hook.seen.long)
           => req.hook.status = "declined"
     /\ req.hook.status = "error" => ~req.hook.seen.long

C22_Witness ==
  /\ HookRead
  /\ req.hook.seen.keyword
  /\ req.hook.seen.long
  /\ req.hook.status = "declined"
  /\ req.outcome = "success"

(* ------------------------------ C23 ------------------------------------ *)
HookFailed ==
  /\ HookRan
  /\ req.outcome = "success"
  /\ req.hook.failed # "none"

SummaryReturned ==
  /\ has_processed(registry[req.sid], "summary_generation")
  /\ Entry(registry[req.sid].agent_data, "summary_generation").status = "completed"
  /\ req.mode = "sequential" =>
        req.final_summary = get_agent_result(registry[req.sid], "summary_generation")

(* C23: when a step of the post-pipeline hook fails, the run still returns *)
(* with summary_generation recorded as completed and its analysis returned *)
(* by the sequential runner, and the persisted status document carries an  *)
(* artifact descriptor with an error outcome.                              *)
C23_HookFailureRecorded ==
  (HookFailed /\ s3up /\ req.sid \in DOMAIN s3doc) =>
     /\ SummaryReturned
     /\ s3doc[req.sid].policy_generated = "error"

(* ------------------------------ C24 ------------------------------------ *)
ArtifactGenerated ==
  /\ HookRan
  /\ req.outcome = "success"
  /\ req.hook.status = "success"
  /\ req.hook.failed = "none"

(* C24: after the hook generated the artifact and wrote its descriptor,    *)
(* the status document of the session holds the policy_generated           *)
(* descriptor with status completed when the run has returned; no later    *)
(* write of the run removed it.                                            *)
C24_DescriptorKept ==
  ArtifactGenerated =>
     /\ req.sid \in DOMAIN s3doc
     /\ s3doc[req.sid].policy_generated = "completed"

(* ------------------------------ C27 ------------------------------------ *)
(* C27: the agents map of every status document written holds an entry for *)
(* each of the 8 stage names, pending for a stage that has not run, and no *)
(* other name.                                                             *)
C27_AgentsMapComplete ==
  \A sid \in DOMAIN s3doc : Keys(s3doc[sid].agents) = Stages

(* ------------------------------ C28 ------------------------------------ *)
(* completion_percentage, (n / 8) * 100, in whole percent.                 *)
completion_percentage(n) == (n * 100) \div total_agents

StagesCompletedIn(agents) ==
  Cardinality({ st \in Stages : st \in Keys(agents) /\ Entry(agents, st).status = "completed" })

(* C28: in every persisted processing summary and every session status,    *)
(* completed_agents is the number of the 8 pipeline stages with a result,  *)
(* pending_agents is 8 minus that, both are between 0 and 8, and the       *)
(* completion percentage is at most 100; also after the hook has run.      *)
C28_CountsWithinEight ==
  /\ \A sid \in DOMAIN s3doc :
       LET d == s3doc[sid]
       IN /\ d.completed_agents = StagesCompletedIn(d.agents)
          /\ d.completed_agents \in 0..total_agents
          /\ d.pending_agents = total_agents - d.completed_agents
          /\ d.pending_agents >= 0
          /\ completion_percentage(d.completed_agents) <= 100
  /\ \A sid \in DOMAIN registry :
       completion_percentage(Cardinality(registry[sid].processed_agents)) <= 100

(* ------------------------------ C29 ------------------------------------ *)
(* C29: in every status document final_summary is empty or equal to the    *)
(* analysis stored for summary_generation; this still holds after the      *)
(* final status update of a request, in planned mode, in fallback mode and *)
(* when the run returned the credential diagnostic.                        *)
C29_FinalSummaryIsSummary ==
  \A sid \in DOMAIN s3doc :
     \/ s3doc[sid].final_summary = NoText
     \/ /\ sid \in DOMAIN registry
        /\ s3doc[sid].final_summary = get_agent_result(registry[sid], "summary_generation")

(* ------------------------------ C26 ------------------------------------ *)
SequentialRunCompleted ==
  /\ req.entry = "s3_process"
  /\ req.outcome = "success"
  /\ req.mode = "sequential"
  /\ Stages \subseteq registry[req.sid].processed_agents

(* C26: after a run of the sequential runner that completed all 8 stages,  *)
(* the results of the session were inserted in the canonical order of the  *)
(* stages and their timestamps do not decrease along that order.           *)
C26_SequentialOrder ==
  SequentialRunCompleted =>
     LET agent_data == registry[req.sid].agent_data
     IN /\ Len(agent_data) >= total_agents
        /\ \A i \in 1..total_agents : agent_data[i].name = AGENT_WORKFLOW_SEQUENCE[i]
        /\ \A i \in 1..(total_agents - 1) :
              agent_data[i].timestamp <= agent_data[i + 1].timestamp

C26_Witness ==
  /\ SequentialRunCompleted
  /\ Len(registry[req.sid].agent_data) >= total_agents
  /\ registry[req.sid].agent_data[1].timestamp
        < registry[req.sid].agent_data[total_agents].timestamp

(* ------------------------------ C25 ------------------------------------ *)
SessionUntouched(o) ==
  /\ (o \in DOMAIN registry') = (o \in DOMAIN registry)
  /\ o \in DOMAIN registry => registry'[o] = registry[o]
  /\ (o \in DOMAIN s3doc') = (o \in DOMAIN s3doc)
  /\ o \in DOMAIN s3doc => s3doc'[o] = s3doc[o]
  /\ docs'[o] = docs[o]

(* C25: a creation, reset, stage execution, status save or upload done for *)
(* one session leaves the results, the processed set, the document content *)
(* and the status document of every other session as they were, whatever   *)
(* the order in which the operations of the sessions follow each other.    *)
C25_SessionIsolation ==
  [][ \A o \in IsoSessions : o # req'.sid => SessionUntouched(o) ]_vars

C25_Witness ==
  /\ req.entry \in {"stage", "reset"}
  /\ req.sid = "s2"
  /\ "s1" \in DOMAIN registry
  /\ Len(registry["s1"].agent_data) >= 1
  /\ registry["s1"].document_content # ""
  /\ "s1" \in DOMAIN s3doc
  /\ "s2" \in DOMAIN s3doc
  /\ s3doc["s1"] # s3doc["s2"]

(* ------------------------------ C30 ------------------------------------ *)
(* C30: every public entry point returns a result and lets no exception    *)
(* escape, whatever the payload and whichever of the planner, the stages   *)
(* and the persistence fail.                                               *)
C30_EntryPointsNeverRaise ==
  /\ req.entry \in {"invoke", "process_request"} => req.outcome # "raised"
  /\ req.entry = "s3_process" => req.outcome \in {"running", "success", "error"}

(* ------------------------------ C31 ------------------------------------ *)
(* C31: within one lifetime of a session's context, between resets, the    *)
(* document content is assigned at most once, whatever the order in which  *)
(* the stage tools are invoked.                                            *)
C31_ContentAssignedOnce ==
  \A sid \in DOMAIN ghost.doc : ghost.doc[sid] <= 1

(* ------------------------------ C32 ------------------------------------ *)
(* C32: cleanup_old_sessions removes from the registry exactly the         *)
(* sessions whose start time is more than max_age before the sweep and     *)
(* leaves the context of every other session and every status document as  *)
(* they were; a folder whose removal fails does not keep the other old     *)
(* folders from being removed, and the call returns.                       *)
C32_CleanupExact ==
  [][ req'.entry = "cleanup" =>
        /\ req'.outcome = "returned"
        /\ \A sid \in DOMAIN registry :
             /\ (sid \in DOMAIN registry')
                   = ~(req'.at - registry[sid].processing_start_time > req'.payload)
             /\ sid \in DOMAIN registry' => registry'[sid] = registry[sid]
        /\ DOMAIN registry' \subseteq DOMAIN registry
        /\ s3doc' = s3doc
        /\ \A sid \in req'.old \ req'.fail : docs'[sid] = "missing"
        /\ \A sid \in DOMAIN docs : sid \notin req'.old \ req'.fail => docs'[sid] = docs[sid]
    ]_vars

C32_Witness ==
  /\ req.entry = "cleanup"
  /\ req.fail # {}
  /\ req.old \ req.fail # {}
  /\ "s1" \in req.cleaned
  /\ "s2" \in DOMAIN registry
  /\ "s1" \notin DOMAIN registry
  /\ Len(registry["s2"].agent_data) >= 1

(* C33: at most one pipeline run is active per session id: no sequence of  *)
(* uploads starts a second worker for a session while an earlier worker of *)
(* that session has not ended.                                             *)
C33_OneRunPerSession ==
  \A sid \in Sessions : ActiveWorkers(sid) <= 1

(* C34: summary_generation is recorded only in a session whose seven       *)
(* preceding stages all have a result; a summary tool call made with fewer *)
(* results returns the insufficient-analyses message and leaves the        *)
(* session without a summary capability call, without a summary result and *)
(* without a hook trigger, so that a later call is still eligible.         *)
C34_SummaryNeedsSeven ==
  LET SpecialistsRecorded(sid) == Specialists \subseteq Keys(Ctx(sid).agent_data)
  IN
  /\ \A sid \in DOMAIN registry :
       Recorded(sid, "summary_generation") => SpecialistsRecorded(sid)
  /\ ( /\ lastCall.tool = "summary_generation"
       /\ lastCall.sid \in DOMAIN registry
       /\ ~SpecialistsRecorded(lastCall.sid) )
     => /\ lastCall.ret = Insufficient
        /\ ghost.cap[lastCall.sid]["summary_generation"] = 0
        /\ ghost.hook[lastCall.sid] = 0
        /\ ~Recorded(lastCall.sid, "summary_generation")
        /\ ~has_processed(Ctx(lastCall.sid), "summary_generation")

C34_Witness ==
  /\ lastCall.tool = "summary_generation"
  /\ lastCall.sid \in DOMAIN registry
  /\ lastCall.ret = Insufficient
  /\ Cardinality(Keys(Ctx(lastCall.sid).agent_data)) = MinInsights - 1

(* C35: a request that returned success with underwriting_complete, or     *)
(* left the durable status at completed, ran in a session whose            *)
(* summary_generation has a completed result when the orchestrator         *)
(* returned; a run that returned the credential diagnostic or the          *)
(* insufficient-analyses message does not end with durable status          *)
(* completed.                                                              *)
C35_CompletedNeedsSummary ==
  ( /\ req.entry = "s3_process"
    /\ req.outcome = "success" )
  => /\ Recorded(req.sid, "summary_generation")
     /\ has_processed(Ctx(req.sid), "summary_generation")
     /\ req.final_summary.tag \notin {"credential_diagnostic", "insufficient_analyses"}

(* ------------------------------ C36 ------------------------------------ *)
(* get_status of run.py: the stored status, overridden by the agents map   *)
(* when that map is not empty; any exception becomes status error.         *)
get_status(store, sid, client, body) ==
  LET r == read_agent_status_from_s3(store, sid, client, body)
  IN IF r.raised
     THEN [status |-> "error", code |-> 500]
     ELSE LET agents == r.value.agents
              agent_statuses == { agents[i].status : i \in 1..Len(agents) }
          IN [ status |->
                 IF Len(agents) = 0 THEN r.value.status
                 ELSE IF agent_statuses \subseteq {"completed"} THEN "completed"
                 ELSE IF "failed" \in agent_statuses THEN "failed"
                 ELSE IF "in_progress" \in agent_statuses THEN "in_progress"
                 ELSE r.value.status,
               code |-> 200 ]

(* C36: for every status document the pipeline has written, the status     *)
(* endpoint reports completed only if summary_generation is completed in   *)
(* that document.                                                          *)
C36_StatusCompletedNeedsSummary ==
  \A sid \in DOMAIN s3doc :
    get_status(s3doc, sid, TRUE, "json").status = "completed"
      => \E i \in 1..Len(s3doc[sid].agents) :
            /\ s3doc[sid].agents[i].name = "summary_generation"
            /\ s3doc[sid].agents[i].status = "completed"

(* C37: every s3_process request that initialised the durable status to    *)
(* starting has left it at completed or failed when it returns.            *)
C37_TerminalStatusOnReturn ==
  ( /\ req.entry = "s3_process"
    /\ req.outcome \in {"success", "error"}
    /\ req.initialised )
  => /\ req.sid \in DOMAIN s3doc
     /\ s3doc[req.sid].status \in {"completed", "failed"}

(* C38: in every session in which a policy artifact was generated, a       *)
(* monitor that has announced processing_complete carried                  *)
(* policy_generated = true in it and emitted the policy_generated event.   *)
C38_MonitorReportsPolicy ==
  \A sid \in Sessions :
    ( /\ ArtifactGenerated
      /\ req.sid = sid
      /\ "processing_complete" \in web.monitor[sid].events )
    => /\ web.monitor[sid].policy_generated
       /\ "policy_generated" \in web.monitor[sid].events

(* ---------------------- voice handler (Nova Sonic) ---------------------- *)
(* A user message is the set of the words of interest it contains.         *)
Vocabulary == {"gold", "link", "ready", "document"}

PolicyWords == {"silver", "gold", "platinum"}

extract_information(message) == message \cap PolicyWords # {}

(* Every explicit keyword of check_upload_request contains "upload" or     *)
(* "link"; "ready" counts only next to a word about documents.             *)
check_upload_request(message) ==
  \/ message \cap {"upload", "link"} # {}
  \/ "ready" \in message /\ message \cap {"document", "upload", "file", "submit"} # {}

upload_request_approved_always(h) == TRUE

upload_request_approved(h) == h.policy_type_confirmed

VoiceStep(h) ==
  /\ voice' = h
  /\ UNCHANGED << registry, s3doc, now, creds, docs, s3up, nova_pro, orchestrator,
                  run, lastCall, ghost, budget, smc, req, web >>

(* run.py on_start_nova_session: the handler is created and stored, and    *)
(* start_session is scheduled on the event loop.                           *)
StartNovaSession ==
  /\ voice.connected
  /\ ~voice.created
  /\ VoiceStep([voice EXCEPT !.created = TRUE, !.in_map = TRUE, !.start = "scheduled"])

(* start_session runs on the loop: the stream is opened and is_active set; *)
(* an exception is logged and leaves the handler as it was.                *)
start_session(h, opened) ==
  IF opened
  THEN [h EXCEPT !.start = "done", !.stream = "open", !.is_active = TRUE]
  ELSE [h EXCEPT !.start = "failed"]

StartSessionRun(opened) ==
  /\ voice.start = "scheduled"
  /\ VoiceStep(start_session(voice, opened))

(* end_session: returns at once on an inactive handler; otherwise clears   *)
(* is_active, closes the input stream and drops the stream.                *)
end_session(h) ==
  IF ~h.is_active
  THEN [h EXCEPT !.end = "done"]
  ELSE [h EXCEPT !.end = "done", !.is_active = FALSE,
                 !.stream = IF @ = "open" THEN "closed" ELSE @]

EndSessionRun ==
  /\ voice.end = "scheduled"
  /\ VoiceStep(end_session(voice))

(* run.py handle_disconnect: end_session is scheduled only for a handler   *)
(* found active at this moment; the handler is removed from the map.       *)
handle_disconnect(h) ==
  IF ~h.in_map
  THEN [h EXCEPT !.connected = FALSE]
  ELSE [h EXCEPT !.connected = FALSE, !.in_map = FALSE,
                 !.end = IF h.is_active THEN "scheduled" ELSE @]

Disconnect ==
  /\ voice.connected
  /\ VoiceStep(handle_disconnect(voice))

(* run.py on_end_nova_session: the client asks to end the session.         *)
EndNovaSession ==
  /\ voice.connected
  /\ voice.in_map
  /\ voice.end = "none"
  /\ VoiceStep([voice EXCEPT !.end = "scheduled"])

(* _process_responses: one event of the response stream.                   *)
Receiving ==
  /\ voice.is_active
  /\ voice.stream = "open"
  /\ voice.events < MaxVoiceEvents

Received(h, ev) == [h EXCEPT !.events = @ + 1, !.ev = ev]

ContentStart(role, speculative) ==
  /\ Receiving
  /\ VoiceStep([Received(voice, "contentStart") EXCEPT
                  !.role = role, !.display_assistant_text = speculative])

text_output(h, message) ==
  IF h.role # "USER"
  THEN h
  ELSE LET h1 == [h EXCEPT
                    !.policy_type_confirmed = @ \/ extract_information(message),
                    !.selected = @ \/ (message \cap PolicyWords # {})]
       IN IF check_upload_request(message)
          THEN [h1 EXCEPT
                  !.pending_upload_request = @ \/ upload_request_approved(h1),
                  !.asked = @ \/ h1.selected]
          ELSE h1

TextOutput(message) ==
  /\ Receiving
  /\ VoiceStep(text_output(Received(voice, "textOutput"), message))

content_end(h) ==
  IF /\ h.role = "ASSISTANT"
     /\ h.pending_upload_request
     /\ h.policy_type_confirmed
     /\ ~h.upload_triggered
  THEN [h EXCEPT !.upload_triggered = TRUE, !.pending_upload_request = FALSE,
                 !.task = "scheduled"]
  ELSE h

ContentEnd ==
  /\ Receiving
  /\ VoiceStep(content_end(Received(voice, "contentEnd")))

(* _trigger_upload_phase: the conversation is saved (a failure is only     *)
(* printed) and upload_link is emitted.                                    *)
trigger_upload_phase(h) ==
  [h EXCEPT !.task = "done", !.upload_links = @ + 1]

UploadPhaseRun ==
  /\ voice.task = "scheduled"
  /\ VoiceStep(trigger_upload_phase(voice))

NextVoice ==
  \/ StartNovaSession
  \/ \E opened \in BOOLEAN : StartSessionRun(opened)
  \/ EndSessionRun
  \/ Disconnect
  \/ EndNovaSession
  \/ \E role \in {"USER", "ASSISTANT"}, speculative \in BOOLEAN :
        ContentStart(role, speculative)
  \/ \E message \in SUBSET Vocabulary : TextOutput(message)
  \/ ContentEnd
  \/ UploadPhaseRun

SpecVoice == Init /\ [][NextVoice]_vars

C40_RemovedHandlerInactive ==
  ( /\ ~voice.connected
    /\ voice.created
    /\ ~voice.in_map
    /\ voice.start # "scheduled"
    /\ voice.end # "scheduled" )
  => /\ ~voice.is_active
     /\ voice.stream # "open"

====
